---- MODULE Spec2Model ----
(***************************************************************************)
(* Blogcaster: the text-to-speech conversion endpoint in its two variants  *)
(* (blogcaster/api.py: cloud gTTS, blogcaster/api_local.py: local SpeechT5 *)
(* model) and the Streamlit front end (blogcaster/app.py).                 *)
(*                                                                         *)
(* A text is a sequence of characters; a character is a one-element token  *)
(* (a string).  Characters outside ASCII are written by code point.        *)
(***************************************************************************)
EXTENDS Integers, Sequences, FiniteSets, TLC

VARIABLES variant, MODEL_LOADING_ERROR, ftime, dir_exists, store, response,
          nreq, successes, listing, nlist, dirty, quiet, ui

vars == <<variant, MODEL_LOADING_ERROR, ftime, dir_exists, store, response,
          nreq, successes, listing, nlist, dirty, quiet, ui>>

None == "None"

\* no filename: a derived filename is never empty
NoPath == <<>>

(* ------------------------------ bounds --------------------------------- *)
\* longest short text given to the filename derivation
MaxLen == 3
\* how far the long texts go beyond max_length
LongExtra == 1
\* conversion requests in one run of the endpoint
MaxRequests == 2
\* file-system clock ticks in one run
MaxTicks == 2
\* file-system clock ticks per second of the wall clock
TicksPerSecond == 2
\* calls of the listing operation in one run
MaxListings == 2

(* --------------------------- characters -------------------------------- *)
AsciiLower == {"a", "b"}
AsciiUpper == {"B"}
AsciiDigit == {"0", "1", "2", "3", "4", "5", "6", "7", "8", "9"}
\* U+00C9 is LATIN CAPITAL LETTER E WITH ACUTE, U+00E9 its lower case
NonAsciiUpper == {"U+00C9"}
NonAsciiLower == {"U+00E9"}
Whitespace == {" ", "\t"}
Hyphen == "-"
Underscore == "_"
Period == "."

\* str.lower() on one character
Lower(c) ==
    CASE c = "B" -> "b"
      [] c = "U+00C9" -> "U+00E9"
      [] OTHER -> c

\* str.lower()
lower(s) == [i \in 1..Len(s) |-> Lower(s[i])]

\* the regular expression class \w on str patterns (Unicode aware)
IsWord(c) == c \in AsciiLower \cup AsciiUpper \cup AsciiDigit \cup {Underscore}
                   \cup NonAsciiUpper \cup NonAsciiLower

\* the regular expression class \s
IsSpace(c) == c \in Whitespace

\* str.strip(): the text without its leading and trailing whitespace
RECURSIVE lstrip(_)
lstrip(s) == IF s # <<>> /\ IsSpace(Head(s)) THEN lstrip(Tail(s)) ELSE s

RECURSIVE rstrip(_)
rstrip(s) == IF s # <<>> /\ IsSpace(s[Len(s)])
             THEN rstrip(SubSeq(s, 1, Len(s) - 1)) ELSE s

strip(s) == rstrip(lstrip(s))

(* ------------------------- sanitize_filename --------------------------- *)
DefaultMaxLength == 50

\* re.sub(r"[^\w\s-]", "", s)
RemoveSpecial(s) == SelectSeq(s, LAMBDA c : IsWord(c) \/ IsSpace(c) \/ c = Hyphen)

IsSeparator(c) == c = Hyphen \/ IsSpace(c)

RECURSIVE DropSeparators(_)
DropSeparators(s) ==
    IF s # <<>> /\ IsSeparator(Head(s)) THEN DropSeparators(Tail(s)) ELSE s

\* re.sub(r"[-\s]+", "_", s)
RECURSIVE CollapseSeparators(_)
CollapseSeparators(s) ==
    IF s = <<>> THEN <<>>
    ELSE IF IsSeparator(Head(s))
         THEN <<Underscore>> \o CollapseSeparators(DropSeparators(s))
         ELSE <<Head(s)>> \o CollapseSeparators(Tail(s))

\* s.strip("_")
RECURSIVE LStripUnderscore(_)
LStripUnderscore(s) ==
    IF s # <<>> /\ Head(s) = Underscore THEN LStripUnderscore(Tail(s)) ELSE s

RECURSIVE RStripUnderscore(_)
RStripUnderscore(s) ==
    IF s # <<>> /\ s[Len(s)] = Underscore
    THEN RStripUnderscore(SubSeq(s, 1, Len(s) - 1)) ELSE s

StripUnderscore(s) == RStripUnderscore(LStripUnderscore(s))

\* s[:max_length]
Truncate(s, max_length) ==
    SubSeq(s, 1, IF Len(s) < max_length THEN Len(s) ELSE max_length)

\* a plausible slip: the special characters are kept
sanitize_filename_keeps_special(text_snippet, max_length) ==
    Truncate(StripUnderscore(CollapseSeparators(lower(text_snippet))), max_length)

sanitize_filename(text_snippet, max_length) ==
    Truncate(StripUnderscore(CollapseSeparators(RemoveSpecial(lower(text_snippet)))),
             max_length)

\* request.text.split(".")[0] if "." in request.text else request.text
RECURSIVE BeforeFirstPeriod(_)
BeforeFirstPeriod(s) ==
    IF s = <<>> \/ Head(s) = Period THEN <<>>
    ELSE <<Head(s)>> \o BeforeFirstPeriod(Tail(s))

(* ----------------------------- timestamp ------------------------------- *)
Digits == <<"0", "1", "2", "3", "4", "5", "6", "7", "8", "9">>

\* datetime.datetime.now(): seconds of the wall clock
Now == ftime \div TicksPerSecond

\* strftime("%Y%m%d_%H%M%S") of 2024-01-01 12:00:00 plus sec seconds
strftime(sec) ==
    <<"2", "0", "2", "4", "0", "1", "0", "1", "_", "1", "2", "0", "0",
      Digits[((sec \div 10) % 10) + 1], Digits[(sec % 10) + 1]>>

TimestampLen == Len(strftime(0))

Extension(v) == IF v = "cloud" THEN <<".", "m", "p", "3">>
                               ELSE <<".", "w", "a", "v">>

\* f"{timestamp}_{text_snippet}.mp3" / f"{timestamp}_{text_snippet}.wav"
DeriveFilename(v, sec, text) ==
    strftime(sec) \o <<Underscore>>
        \o sanitize_filename(BeforeFirstPeriod(text), DefaultMaxLength)
        \o Extension(v)

(* ------------------------------- texts --------------------------------- *)
Alphabet == {"a", "B", "7", "_", "-", " ", ".", "?", "/", "\\", "U+00C9"}

SeqsUpTo(S, n) == UNION {[1..k -> S] : k \in 0..n}

\* a text of n characters, all "a" but the one at position k
LongText(n, k, c) == [i \in 1..n |-> IF i = k THEN c ELSE "a"]

LongTexts ==
    {LongText(n, k, c) :
        n \in (DefaultMaxLength - 1)..(DefaultMaxLength + LongExtra),
        k \in {1, DefaultMaxLength - 1, DefaultMaxLength},
        c \in {"a", " ", "."}}

Texts == SeqsUpTo(Alphabet, MaxLen) \cup LongTexts

\* the texts of the requests in a run of the endpoint: empty, whitespace
\* only, punctuation only, and texts that share a snippet
RequestTexts == {<<>>, <<" ">>, <<" ", " ">>, <<"?">>, <<"a">>, <<"a", "?">>, <<"B">>}

(* ---------------------------- artifact store --------------------------- *)
\* The directory MUSIC_DIR: its entries in the order os.listdir gives them.
\* An entry is [name, mtime, complete, writes]: complete is FALSE for a file
\* that was opened for writing and never fully written.
Names(st) == {st[i].name : i \in 1..Len(st)}

IndexOf(st, name) ==
    IF name \in Names(st) THEN CHOOSE i \in 1..Len(st) : st[i].name = name ELSE 0

InsertAt(st, pos, e) == SubSeq(st, 1, pos - 1) \o <<e>> \o SubSeq(st, pos, Len(st))

\* open(path, "wb") and what follows: an existing file is truncated and
\* rewritten in place, a new one gets a directory slot (pos)
WriteFile(st, name, t, complete, pos) ==
    LET i == IndexOf(st, name) IN
    IF i > 0
    THEN [st EXCEPT ![i] = [name |-> name, mtime |-> t, complete |-> complete,
                            writes |-> st[i].writes + 1]]
    ELSE InsertAt(st, pos, [name |-> name, mtime |-> t, complete |-> complete,
                            writes |-> 1])

HoldsArtifact(st, name) ==
    \E i \in 1..Len(st) : st[i].name = name /\ st[i].complete

(* ---------------------- the conversion endpoint ------------------------ *)
LoadError == "Failed to load SpeechT5 models"

NoResponse ==
    [status |-> 0, detail |-> None, filename |-> NoPath, path |-> NoPath,
     text |-> <<>>, backend |-> FALSE, wrote |-> FALSE, overwrote |-> FALSE]

\* An outcome of one request: the HTTP response (status, detail, filename),
\* the store it leaves (st), and what the handler did on the way: the path it
\* derived, whether the synthesis backend was called (backend).
Outcome(status, detail, filename, path, backend, st) ==
    [status |-> status, detail |-> detail, filename |-> filename, path |-> path,
     backend |-> backend, st |-> st]

\* where the synthesis or the save of the cloud variant can raise:
\* gTTS(...) itself, open() inside tts.save, the streaming inside tts.save
CloudFaults == {"none", "gtts_init", "save_open", "save_stream"}

\* a plausible slip: no validation of the text
cloud_convert_no_validation(text, fault, pos) ==
    LET filename == DeriveFilename("cloud", Now, text) IN
    IF fault = "none" /\ dir_exists
    THEN Outcome(200, "Audio saved", filename, filename, TRUE,
                 WriteFile(store, filename, ftime, TRUE, pos))
    ELSE Outcome(500, "Error generating audio", NoPath, filename, TRUE, store)

\* api.py convert_text_to_speech
cloud_convert(text, fault, pos) ==
    IF strip(text) = <<>>
    THEN Outcome(400, "Text input cannot be empty.", NoPath, NoPath, FALSE, store)
    ELSE
      LET filename == DeriveFilename("cloud", Now, text) IN
      IF fault = "gtts_init"
      THEN Outcome(500, "Error generating audio", NoPath, filename, TRUE, store)
      ELSE IF fault = "save_open" \/ ~dir_exists
      THEN Outcome(500, "Error generating audio", NoPath, filename, TRUE, store)
      ELSE IF fault = "save_stream"
      THEN Outcome(500, "Error generating audio", NoPath, filename, TRUE,
                   WriteFile(store, filename, ftime, FALSE, pos))
      ELSE Outcome(200, "Audio saved", filename, filename, TRUE,
                   WriteFile(store, filename, ftime, TRUE, pos))

\* where the synthesis or the save of the local variant can raise:
\* processor(...), generate_speech (out of memory, another RuntimeError,
\* another exception), sf.write opening the file, sf.write writing the data
LocalFaults == {"none", "processor", "oom", "runtime", "other",
                "write_open", "write_data"}

\* hasattr(model, "generate_speech") and hasattr(processor, "__call__"):
\* what a successful load binds has both
ModelsProperlyLoaded == MODEL_LOADING_ERROR = None

\* api_local.py convert_text_to_speech, from the validation on
local_synthesize(text, fault, pos) ==
    IF strip(text) = <<>>
    THEN Outcome(400, "Text input cannot be empty.", NoPath, NoPath, FALSE, store)
    ELSE IF fault = "processor" \/ fault = "other"
    THEN Outcome(500, "An unexpected error occurred during TTS", NoPath, NoPath,
                 TRUE, store)
    ELSE IF fault = "oom"
    THEN Outcome(500, "Error generating audio: CUDA out of memory", NoPath, NoPath,
                 TRUE, store)
    ELSE IF fault = "runtime"
    THEN Outcome(500, "Error generating audio", NoPath, NoPath, TRUE, store)
    ELSE
      LET filename == DeriveFilename("local", Now, text) IN
      IF fault = "write_open" \/ ~dir_exists
      THEN Outcome(500, "Error generating audio", NoPath, filename, TRUE, store)
      ELSE IF fault = "write_data"
      THEN Outcome(500, "Error generating audio", NoPath, filename, TRUE,
                   WriteFile(store, filename, ftime, FALSE, pos))
      ELSE Outcome(200, "Audio saved", filename, filename, TRUE,
                   WriteFile(store, filename, ftime, TRUE, pos))

\* a plausible slip: the text is validated before the load failure is looked at
local_convert_validates_first(text, fault, pos) ==
    IF strip(text) = <<>>
    THEN Outcome(400, "Text input cannot be empty.", NoPath, NoPath, FALSE, store)
    ELSE IF MODEL_LOADING_ERROR # None
    THEN Outcome(503, "Service Unavailable", NoPath, NoPath, FALSE, store)
    ELSE local_synthesize(text, fault, pos)

\* api_local.py convert_text_to_speech
local_convert(text, fault, pos) ==
    IF MODEL_LOADING_ERROR # None
    THEN Outcome(503, "Service Unavailable", NoPath, NoPath, FALSE, store)
    ELSE IF ~ModelsProperlyLoaded
    THEN Outcome(503, "TTS models not properly loaded.", NoPath, NoPath, FALSE, store)
    ELSE local_synthesize(text, fault, pos)

\* One request handled by the deployed variant.  The handler is an async
\* function without an await: it runs to its response without interleaving.
Handle(text, out) ==
    /\ store' = out.st
    /\ response' = [status |-> out.status, detail |-> out.detail,
                    filename |-> out.filename, path |-> out.path,
                    text |-> text, backend |-> out.backend,
                    wrote |-> out.st # store,
                    overwrote |-> out.st # store /\ out.path # NoPath
                                  /\ HoldsArtifact(store, out.path)]
    /\ nreq' = nreq + 1
    /\ successes' = IF out.status = 200 THEN successes + 1 ELSE successes
    /\ dirty' = (dirty \/ out.st # store)
    /\ UNCHANGED <<variant, MODEL_LOADING_ERROR, ftime, dir_exists, listing,
                   nlist, quiet, ui>>

Convert(text) ==
    \E pos \in 1..(Len(store) + 1) :
        \/ /\ variant = "cloud"
           /\ \E fault \in CloudFaults : Handle(text, cloud_convert(text, fault, pos))
        \/ /\ variant = "local"
           /\ \E fault \in LocalFaults : Handle(text, local_convert(text, fault, pos))

convert_text_to_speech ==
    /\ nreq < MaxRequests
    /\ \E text \in RequestTexts : Convert(text)

\* the clock moves on
Tick ==
    /\ ftime < MaxTicks
    /\ ftime' = ftime + 1
    /\ UNCHANGED <<variant, MODEL_LOADING_ERROR, dir_exists, store, response,
                   nreq, successes, listing, nlist, dirty, quiet, ui>>

\* the front end's session before the first run of its script
NoUi ==
    [state |-> "Idle", text_input |-> <<>>, uploaded |-> [kind |-> "none"],
     use_file |-> FALSE, pressed |-> FALSE, text_area_content |-> <<>>,
     notices |-> <<>>, request |-> [kind |-> "none"], outcome |-> [kind |-> "none"],
     rerun |-> FALSE]

\* After import: the directory is made, and the local variant has tried to
\* load its models once.
Init ==
    /\ variant \in {"cloud", "local"}
    /\ MODEL_LOADING_ERROR \in (IF variant = "cloud" THEN {None} ELSE {None, LoadError})
    /\ ftime = 0
    /\ dir_exists = TRUE
    /\ store = <<>>
    /\ response = NoResponse
    /\ nreq = 0
    /\ successes = 0
    /\ listing = <<>>
    /\ nlist = 0
    /\ dirty = FALSE
    /\ quiet = "no"
    /\ ui = NoUi

Next == convert_text_to_speech \/ Tick

Spec == Init /\ [][Next]_vars

\* The filename derivation on its own: one request, any text.
NameInit ==
    /\ Init
    /\ MODEL_LOADING_ERROR = None

NameConvert ==
    /\ nreq = 0
    /\ \E text \in Texts : Convert(text)

NameNext == NameConvert \/ Tick

NameSpec == NameInit /\ [][NameNext]_vars

(* ------------------- claims about the endpoint ------------------------- *)
IsBlank(text) == strip(text) = <<>>

Answered == nreq > 0

\* C1: a request that does not return the success response leaves the store
\* as it found it, and the store never holds a file that was not fully written.
C1_NoPartialArtifact ==
    /\ (Answered /\ response.status # 200) => ~response.wrote
    /\ \A i \in 1..Len(store) : store[i].complete

\* C2: a successful conversion never writes to a path that already holds an
\* artifact, no file is written twice, and (failed writes aside) the store
\* holds one file per successful conversion.
C2_CreatedExactlyOnce ==
    /\ (Answered /\ response.status = 200) => ~response.overwrote
    /\ (\A i \in 1..Len(store) : store[i].complete) =>
          /\ \A i \in 1..Len(store) : store[i].writes = 1
          /\ Len(store) = successes

\* the snippet part of a derived filename: between "timestamp_" and the extension
SnippetOf(path) == SubSeq(path, TimestampLen + 2, Len(path) - Len(Extension(variant)))

Derived == Answered /\ response.path # NoPath

\* C3: when the sanitized snippet is empty the derived filename is the
\* timestamp followed at once by the extension.
C3_EmptySnippetNoUnderscore ==
    (Derived /\ sanitize_filename(BeforeFirstPeriod(response.text), DefaultMaxLength) = <<>>)
        => response.path = SubSeq(response.path, 1, TimestampLen) \o Extension(variant)

AsciiSnippetChars ==
    {"a", "b", "c", "d", "e", "f", "g", "h", "i", "j", "k", "l", "m", "n", "o",
     "p", "q", "r", "s", "t", "u", "v", "w", "x", "y", "z", "_"} \cup AsciiDigit

\* C4: a derived filename is timestamp, underscore, snippet, extension; the
\* snippet is made of [a-z0-9_] only and is at most 50 characters long.
C4_SnippetCharset ==
    Derived =>
        /\ Len(response.path) >= TimestampLen + 1 + Len(Extension(variant))
        /\ SubSeq(response.path, 1, TimestampLen + 1)
              \in {strftime(sec) \o <<Underscore>> : sec \in 0..Now}
        /\ SubSeq(response.path, Len(response.path) - Len(Extension(variant)) + 1,
                  Len(response.path)) = Extension(variant)
        /\ \A i \in 1..Len(SnippetOf(response.path)) :
              SnippetOf(response.path)[i] \in AsciiSnippetChars
        /\ Len(SnippetOf(response.path)) <= DefaultMaxLength

\* C5 as stated: a blank text is answered 400, before any backend work or
\* filename derivation, and nothing is written.
C5_BlankIs400 ==
    (Answered /\ IsBlank(response.text)) =>
        /\ response.status = 400
        /\ ~response.backend
        /\ response.path = NoPath
        /\ ~response.wrote

\* C5 amended: a blank text is answered 400, or 503 when the local variant
\* recorded a model loading failure; either way before any backend work or
\* filename derivation, and nothing is written.
C5_BlankIs400UnlessUnavailable ==
    (Answered /\ IsBlank(response.text)) =>
        /\ response.status = (IF MODEL_LOADING_ERROR # None THEN 503 ELSE 400)
        /\ ~response.backend
        /\ response.path = NoPath
        /\ ~response.wrote

C5_Witness ==
    /\ Answered /\ response.text = <<" ", " ">>
    /\ response.status = 400 /\ variant = "local"

\* C6: once model loading has failed, every request, whatever its text, is
\* answered 503 Service Unavailable without running the backend or writing a
\* file, and leaves the recorded failure as it is.
C6_FailFastAfterLoadFailure ==
    [][(MODEL_LOADING_ERROR # None /\ nreq' # nreq) =>
          /\ response'.status = 503
          /\ response'.detail = "Service Unavailable"
          /\ ~response'.backend
          /\ store' = store
          /\ MODEL_LOADING_ERROR' = MODEL_LOADING_ERROR]_vars

C6_Witness ==
    /\ MODEL_LOADING_ERROR # None /\ nreq = MaxRequests
    /\ response.status = 503 /\ ~IsBlank(response.text)

Range(s) == {s[i] : i \in 1..Len(s)}

\* C10: no derived filename holds a path separator, or a period other than
\* the one that starts the extension.
C10_PathConfined ==
    \A name \in Names(store) \cup ({response.path} \ {NoPath}) :
        \A i \in 1..Len(name) :
            /\ name[i] \notin {"/", "\\"}
            /\ name[i] = Period => i = Len(name) - Len(Extension(variant)) + 1

C10_Witness ==
    /\ Answered /\ response.status = 200 /\ store # <<>>
    /\ {"/", Period} \subseteq Range(response.text)

(* ------------------------- the listing (app.py) ------------------------ *)
\* f.endswith(suffix)
EndsWith(name, suffix) ==
    /\ Len(name) >= Len(suffix)
    /\ SubSeq(name, Len(name) - Len(suffix) + 1, Len(name)) = suffix

IsAudioName(name) ==
    EndsWith(name, <<".", "w", "a", "v">>) \/ EndsWith(name, <<".", "m", "p", "3">>)

\* e put behind the last entry of sorted whose mtime is not below e's
RECURSIVE InsertDesc(_, _)
InsertDesc(sorted, e) ==
    IF sorted = <<>> THEN <<e>>
    ELSE IF Head(sorted).mtime >= e.mtime
         THEN <<Head(sorted)>> \o InsertDesc(Tail(sorted), e)
         ELSE <<e>> \o sorted

\* e put behind the last entry of sorted whose mtime is not above e's
RECURSIVE InsertAsc(_, _)
InsertAsc(sorted, e) ==
    IF sorted = <<>> THEN <<e>>
    ELSE IF Head(sorted).mtime <= e.mtime
         THEN <<Head(sorted)>> \o InsertAsc(Tail(sorted), e)
         ELSE <<e>> \o sorted

\* sorted by mtime, oldest first, entries with equal mtime in their order
RECURSIVE SortOldestFirst(_)
SortOldestFirst(entries) ==
    IF entries = <<>> THEN <<>>
    ELSE InsertAsc(SortOldestFirst(SubSeq(entries, 1, Len(entries) - 1)),
                   entries[Len(entries)])

\* files.sort(key=getmtime, reverse=True): stable, entries with equal mtime
\* keep the order they had
RECURSIVE SortNewestFirst(_)
SortNewestFirst(entries) ==
    IF entries = <<>> THEN <<>>
    ELSE InsertDesc(SortNewestFirst(SubSeq(entries, 1, Len(entries) - 1)),
                    entries[Len(entries)])

\* a plausible slip: the files are sorted without reverse=True
get_audio_files_oldest_first ==
    IF ~dir_exists THEN <<>>
    ELSE LET files == SelectSeq(store, LAMBDA e : IsAudioName(e.name))
             sorted == SortOldestFirst(files)
         IN [i \in 1..Len(sorted) |-> sorted[i].name]

\* app.py get_audio_files
get_audio_files ==
    IF ~dir_exists THEN <<>>
    ELSE LET files == SelectSeq(store, LAMBDA e : IsAudioName(e.name))
             sorted == SortNewestFirst(files)
         IN [i \in 1..Len(sorted) |-> sorted[i].name]

\* one call of get_audio_files (app.py line 41, once per run of the script)
ListAudioFiles ==
    /\ nlist < MaxListings
    /\ nlist' = nlist + 1
    /\ listing' = get_audio_files
    /\ quiet' = IF nlist = 0 \/ dirty THEN "no"
                ELSE IF listing' = listing THEN "same" ELSE "differs"
    /\ dirty' = FALSE
    /\ UNCHANGED <<variant, MODEL_LOADING_ERROR, ftime, dir_exists, store,
                   response, nreq, successes, ui>>

\* os.makedirs(MUSIC_DIR, exist_ok=True), at the top of every run of the script
MakeDirs ==
    /\ ~dir_exists
    /\ dir_exists' = TRUE
    /\ dirty' = TRUE
    /\ UNCHANGED <<variant, MODEL_LOADING_ERROR, ftime, store, response, nreq,
                   successes, listing, nlist, quiet, ui>>

\* What a file in MUSIC_DIR can be called: what the endpoint of either
\* variant derives at this second, and names that are no audio file's.
DirectoryNames ==
    {DeriveFilename(v, Now, <<"a">>) : v \in {"cloud", "local"}}
        \cup {<<"n", ".", "t", "x", "t">>, <<"w", "a", "v">>}

\* files in MUSIC_DIR in a run of the listing
MaxFiles == 3

\* A new file is written into MUSIC_DIR by another process (the endpoint's,
\* or by hand).
ExternalWrite ==
    /\ dir_exists
    /\ Len(store) < MaxFiles
    /\ \E name \in DirectoryNames \ Names(store), pos \in 1..(Len(store) + 1) :
          store' = WriteFile(store, name, ftime, TRUE, pos)
    /\ dirty' = TRUE
    /\ UNCHANGED <<variant, MODEL_LOADING_ERROR, ftime, dir_exists, response,
                   nreq, successes, listing, nlist, quiet, ui>>

\* The directory is removed with all it holds (manual cleanup).
ExternalRemoveDir ==
    /\ dir_exists
    /\ dir_exists' = FALSE
    /\ store' = <<>>
    /\ dirty' = TRUE
    /\ UNCHANGED <<variant, MODEL_LOADING_ERROR, ftime, response, nreq,
                   successes, listing, nlist, quiet, ui>>

\* The front end says which endpoint it is deployed with: the local variant.
ListInit ==
    /\ Init
    /\ variant = "local"
    /\ MODEL_LOADING_ERROR = None

ListNext ==
    \/ Tick
    \/ ListAudioFiles
    \/ MakeDirs
    \/ ExternalWrite
    \/ ExternalRemoveDir

ListSpec == ListInit /\ [][ListNext]_vars

MtimeOf(name) == store[IndexOf(store, name)].mtime

FrontTexts == {<<>>, <<" ">>, <<"a">>, <<"b">>}

\* st.file_uploader: no file, a file whose bytes decode as UTF-8, one whose
\* bytes do not
Uploads ==
    {[kind |-> "none"], [kind |-> "undecodable"]}
        \cup {[kind |-> "text", content |-> c] : c \in FrontTexts}

RequestTimeout == 300

\* Lines 92-120: [final, notices, rerun, session] for one run of the script.
\* rerun: st.experimental_rerun() ended the run before the button was reached.
SelectText(text_input, uploaded, use_file) ==
    IF uploaded.kind = "undecodable"
    THEN [final |-> <<>>, notices |-> <<[kind |-> "error_reading_file"]>>,
          rerun |-> FALSE, session |-> text_input]
    ELSE IF uploaded.kind = "text"
    THEN IF use_file
         THEN [final |-> uploaded.content, notices |-> <<>>,
               rerun |-> (text_input # uploaded.content),
               session |-> uploaded.content]
         ELSE IF strip(text_input) # <<>>
         THEN [final |-> text_input, notices |-> <<>>, rerun |-> FALSE,
               session |-> text_input]
         ELSE [final |-> uploaded.content, notices |-> <<>>, rerun |-> FALSE,
               session |-> text_input]
    ELSE IF strip(text_input) # <<>>
    THEN [final |-> text_input, notices |-> <<>>, rerun |-> FALSE,
          session |-> text_input]
    ELSE [final |-> <<>>, notices |-> <<>>, rerun |-> FALSE, session |-> text_input]

\* One run of the script up to requests.post: the widgets' values are the
\* user's, the button is pressed or not.
ScriptRun ==
    /\ ui.state = "Idle"
    /\ \E text_input \in FrontTexts, uploaded \in Uploads, use_file \in BOOLEAN,
          pressed \in BOOLEAN :
          LET sel == SelectText(text_input, uploaded, use_file)
              base == [state |-> "Idle", text_input |-> text_input,
                       uploaded |-> uploaded,
                       use_file |-> (use_file /\ uploaded.kind = "text"),
                       pressed |-> pressed,
                       text_area_content |-> sel.session,
                       notices |-> sel.notices, request |-> [kind |-> "none"],
                       outcome |-> [kind |-> "none"], rerun |-> sel.rerun]
          IN ui' = IF sel.rerun \/ ~pressed THEN base
                   ELSE IF strip(sel.final) = <<>>
                   THEN [base EXCEPT !.notices = @ \o <<[kind |-> "warning_no_text"]>>]
                   ELSE [base EXCEPT
                           !.state = "Converting",
                           !.notices = @ \o <<[kind |-> "info_converting"]>>,
                           !.request = [kind |-> "post", text |-> sel.final,
                                        timeout |-> RequestTimeout]]
    /\ UNCHANGED <<variant, MODEL_LOADING_ERROR, ftime, dir_exists, store,
                   response, nreq, successes, listing, nlist, dirty, quiet>>

\* The bodies an HTTP response can carry: a JSON object with a "detail" or a
\* "filename", a JSON object with neither, JSON that is no object, no JSON.
Bodies ==
    {[kind |-> "detail", detail |-> "Text input cannot be empty."],
     [kind |-> "detail", detail |-> "Service Unavailable"],
     [kind |-> "filename", filename |-> "20240101_120000_a.wav"],
     [kind |-> "object"], [kind |-> "list"], [kind |-> "text"]}

\* The exceptions requests.post can raise, each with the classes it is an
\* instance of.
Raised ==
    {[kind |-> "raised", exc |-> "ConnectionError",
      classes |-> {"ConnectionError", "RequestException", "Exception"}],
     [kind |-> "raised", exc |-> "ConnectTimeout",
      classes |-> {"ConnectTimeout", "ConnectionError", "Timeout",
                   "RequestException", "Exception"}],
     [kind |-> "raised", exc |-> "ReadTimeout",
      classes |-> {"ReadTimeout", "Timeout", "RequestException", "Exception"}],
     [kind |-> "raised", exc |-> "TooManyRedirects",
      classes |-> {"TooManyRedirects", "RequestException", "Exception"}]}

Outcomes ==
    Raised \cup {[kind |-> "response", status |-> st, body |-> b] :
                    st \in {200, 400, 500, 503}, b \in Bodies}

\* What lines 135-140 raise for an outcome: the classes of the exception, or
\* {} when they run through.
RaisedClasses(outcome) ==
    IF outcome.kind = "raised" THEN outcome.classes
    ELSE IF outcome.status >= 400
    THEN {"HTTPError", "RequestException", "Exception"}
    ELSE IF outcome.body.kind = "text"
    THEN {"JSONDecodeError", "RequestException", "Exception"}
    ELSE IF outcome.body.kind = "list"
    THEN {"AttributeError", "Exception"}
    ELSE {}

\* a plausible slip: the Timeout clause stands before the ConnectionError one
ExceptClausesTimeoutFirst == <<"Timeout", "ConnectionError", "HTTPError", "Exception">>

\* the except clauses of lines 147-163, in their order
ExceptClauses == <<"ConnectionError", "HTTPError", "Timeout", "Exception">>

\* the first except clause that matches
CaughtBy(classes) ==
    ExceptClauses[CHOOSE i \in 1..Len(ExceptClauses) :
                    /\ ExceptClauses[i] \in classes
                    /\ \A j \in 1..(i - 1) : ExceptClauses[j] \notin classes]

FallbackDetail == "Could not retrieve error details from API."

\* lines 152-156: e.response.json().get("detail", e.response.text)
ErrorDetail(body) ==
    IF body.kind = "detail" THEN body.detail
    ELSE IF body.kind \in {"object", "filename"} THEN "body text"
    ELSE FallbackDetail

\* lines 139-163: the notice an outcome ends in
NoticeFor(outcome) ==
    LET classes == RaisedClasses(outcome) IN
    IF classes = {}
    THEN [kind |-> "success",
          filename |-> IF outcome.body.kind = "filename" THEN outcome.body.filename
                       ELSE "audio.wav"]
    ELSE LET clause == CaughtBy(classes) IN
         IF clause = "ConnectionError" THEN [kind |-> "error_connection"]
         ELSE IF clause = "HTTPError"
         THEN [kind |-> "error_api", status |-> outcome.status,
               detail |-> ErrorDetail(outcome.body)]
         ELSE IF clause = "Timeout" THEN [kind |-> "error_timeout"]
         ELSE [kind |-> "error_unexpected"]

\* requests.post returns or raises, and the run of the script ends
ResponseArrives ==
    /\ ui.state = "Converting"
    /\ \E outcome \in Outcomes :
          ui' = [ui EXCEPT !.state = "Idle",
                           !.outcome = outcome,
                           !.notices = @ \o <<NoticeFor(outcome)>>,
                           !.rerun = (RaisedClasses(outcome) = {})]
    /\ UNCHANGED <<variant, MODEL_LOADING_ERROR, ftime, dir_exists, store,
                   response, nreq, successes, listing, nlist, dirty, quiet>>

FrontNext == ScriptRun \/ ResponseArrives

FrontSpec == ListInit /\ [][FrontNext]_vars

(* ------------------- claims about the front end ------------------------ *)
ErrorNotices ==
    SelectSeq(ui.notices, LAMBDA n : n.kind \in {"error_connection", "error_api",
                                                  "error_timeout", "error_unexpected",
                                                  "error_reading_file"})

Failed == ui.outcome.kind # "none" /\ RaisedClasses(ui.outcome) # {}

IsTimeout(outcome) == outcome.kind = "raised" /\ "Timeout" \in outcome.classes

IsConnectionFailure(outcome) ==
    outcome.kind = "raised" /\ "ConnectionError" \in outcome.classes

IsHttpError(outcome) == outcome.kind = "response" /\ outcome.status >= 400

\* C7 as stated: a failed conversion ends Idle with exactly one error notice:
\* the timeout notice for a timeout of any kind, the connection notice for
\* another connection failure, the API notice with the status and the
\* server's detail for an HTTP error status, the generic notice otherwise.
C7_NoticeMatchesCause ==
    Failed =>
        /\ ui.state = "Idle"
        /\ Len(ErrorNotices) = 1
        /\ LET n == ErrorNotices[1] IN
           IF IsTimeout(ui.outcome) THEN n.kind = "error_timeout"
           ELSE IF IsConnectionFailure(ui.outcome) THEN n.kind = "error_connection"
           ELSE IF IsHttpError(ui.outcome)
           THEN /\ n.kind = "error_api"
                /\ n.status = ui.outcome.status
                /\ ui.outcome.body.kind = "detail" => n.detail = ui.outcome.body.detail
           ELSE n.kind = "error_unexpected"

\* C7 amended: a failed conversion ends Idle with exactly one error notice:
\* the connection notice for a connection failure, a timeout while connecting
\* included; the timeout notice for any other timeout; the API notice for an
\* HTTP error status, with the status and the server's detail, or the body
\* text when the JSON object has no detail, or the fixed fallback text when
\* the body is no JSON object; the generic notice otherwise.
C7_NoticeMatchesCauseConnectFirst ==
    Failed =>
        /\ ui.state = "Idle"
        /\ Len(ErrorNotices) = 1
        /\ LET n == ErrorNotices[1] IN
           IF IsConnectionFailure(ui.outcome) THEN n.kind = "error_connection"
           ELSE IF IsTimeout(ui.outcome) THEN n.kind = "error_timeout"
           ELSE IF IsHttpError(ui.outcome)
           THEN /\ n.kind = "error_api"
                /\ n.status = ui.outcome.status
                /\ n.detail = (IF ui.outcome.body.kind = "detail"
                               THEN ui.outcome.body.detail
                               ELSE IF ui.outcome.body.kind \in {"list", "text"}
                               THEN FallbackDetail ELSE "body text")
           ELSE n.kind = "error_unexpected"

C7_Witness ==
    /\ ui.state = "Idle" /\ ui.outcome.kind = "raised"
    /\ ui.outcome.exc = "ConnectTimeout"
    /\ Len(ErrorNotices) = 1 /\ ErrorNotices[1].kind = "error_connection"

\* the text the precedence of C8 chooses
ChosenText ==
    IF ui.uploaded.kind = "text" /\ ui.use_file THEN ui.uploaded.content
    ELSE IF strip(ui.text_input) # <<>> THEN ui.text_input
    ELSE IF ui.uploaded.kind = "text" THEN ui.uploaded.content
    ELSE <<>>

Warned == \E i \in 1..Len(ui.notices) : ui.notices[i].kind = "warning_no_text"

\* C8: on submit the text sent is the uploaded content when a file is
\* uploaded and the toggle is on, else the text area's content when that is
\* not blank, else the uploaded content; when the chosen text is blank a
\* warning is shown, nothing is sent and the session stays Idle.
C8_TextPrecedence ==
    (ui.pressed /\ ui.outcome.kind = "none") =>
        IF strip(ChosenText) = <<>>
        THEN Warned /\ ui.request.kind = "none" /\ ui.state = "Idle"
        ELSE /\ ui.request.kind = "post" /\ ui.request.text = ChosenText
             /\ ~Warned /\ ui.state = "Converting"

====
